---- MODULE Spec2Model ----
(***************************************************************************)
(* nornir_table_inventory: plugins/inventory/table.py.                     *)
(*                                                                         *)
(* FlatDataInventory.load turns three collections of raw rows (hosts,      *)
(* groups, defaults) into an Inventory.  The module models the cell        *)
(* values of a row, the Python conversions the code applies to them        *)
(* (truthiness, str, int, lower, split, replace, the in operator), the     *)
(* record builders and load itself, one action per step of load.           *)
(*                                                                         *)
(* A Python string is a sequence of one-character strings, so that the     *)
(* conversions are computed and not assumed.  A cell value is a record     *)
(* [t, s, n]: t is the Python type, s the payload of a str, n the payload  *)
(* of an int or a bool.  A dict is a function from its key set; the key    *)
(* universe below holds no two keys with the same stripped form, so the    *)
(* iteration order of a row never changes a result.                        *)
(***************************************************************************)
EXTENDS Integers, Sequences, FiniteSets, TLC

VARIABLES
    hosts_data,     \* self.hosts_data: sequence of rows
    groups_data,    \* self.groups_data: sequence of rows
    defaults_data,  \* self.defaults_data: one row, a dict (empty when absent)
    pc,             \* position of load
    i,              \* index of the next row of the running loop
    defaults,       \* local defaults of load
    groups,         \* local groups of load: key -> Group
    hosts,          \* local hosts of load: key -> Host
    result,         \* what load returned or raised
    typ,            \* builder under test: "Host", "Group" or "Defaults"
    row,            \* the row handed to the builder under test
    built           \* what the builder under test returned or raised

vars == <<hosts_data, groups_data, defaults_data, pc, i, defaults, groups,
          hosts, result, typ, row, built>>

-----------------------------------------------------------------------------
(* Python values *)

None == [t |-> "none", s |-> <<>>, n |-> 0]

NaN == [t |-> "nan", s |-> <<>>, n |-> 0]

Str(s) == [t |-> "str", s |-> s, n |-> 0]

Int_(n) == [t |-> "int", s |-> <<>>, n |-> n]

Bool(b) == [t |-> "bool", s |-> <<>>, n |-> IF b THEN 1 ELSE 0]

\* a raised exception, or a returned value
Raise(e) == [ok |-> FALSE, err |-> e, v |-> None]

Return(v) == [ok |-> TRUE, err |-> "", v |-> v]

\* if x:
Truthy(x) ==
    CASE x.t = "none" -> FALSE
      [] x.t = "nan"  -> TRUE
      [] x.t = "str"  -> x.s # <<>>
      [] OTHER        -> x.n # 0

Digits == <<"0", "1", "2", "3", "4", "5", "6", "7", "8", "9">>

UpperCase == <<"A", "B", "C", "D", "E", "F", "G", "H", "I", "J", "K", "L", "M",
               "N", "O", "P", "Q", "R", "S", "T", "U", "V", "W", "X", "Y", "Z">>

LowerCase == <<"a", "b", "c", "d", "e", "f", "g", "h", "i", "j", "k", "l", "m",
               "n", "o", "p", "q", "r", "s", "t", "u", "v", "w", "x", "y", "z">>

IsDigit(c) == \E d \in 1..10 : Digits[d] = c

DigitVal(c) == (CHOOSE d \in 1..10 : Digits[d] = c) - 1

\* str(n) of an int
RECURSIVE NatStr(_)
NatStr(n) == IF n < 10 THEN <<Digits[n + 1]>>
             ELSE NatStr(n \div 10) \o <<Digits[(n % 10) + 1]>>

IntStr(n) == IF n < 0 THEN <<"-">> \o NatStr(-n) ELSE NatStr(n)

\* str(x)
PyStr(x) ==
    CASE x.t = "none" -> <<"N", "o", "n", "e">>
      [] x.t = "nan"  -> <<"n", "a", "n">>
      [] x.t = "str"  -> x.s
      [] x.t = "int"  -> IntStr(x.n)
      [] OTHER        -> IF x.n = 1 THEN <<"T", "r", "u", "e">>
                         ELSE <<"F", "a", "l", "s", "e">>

\* s.lower()
LowerChar(c) ==
    IF \E u \in 1..26 : UpperCase[u] = c
    THEN LowerCase[CHOOSE u \in 1..26 : UpperCase[u] = c]
    ELSE c

Lower(s) == [k \in 1..Len(s) |-> LowerChar(s[k])]

\* s.strip() of blanks
RECURSIVE LStrip(_)
LStrip(s) == IF s # <<>> /\ Head(s) = " " THEN LStrip(Tail(s)) ELSE s

RECURSIVE RStrip(_)
RStrip(s) == IF s # <<>> /\ s[Len(s)] = " "
             THEN RStrip(SubSeq(s, 1, Len(s) - 1)) ELSE s

RECURSIVE DigitsVal(_)
DigitsVal(s) == IF s = <<>> THEN 0
                ELSE 10 * DigitsVal(SubSeq(s, 1, Len(s) - 1)) + DigitVal(s[Len(s)])

\* int(s) of a str: blanks stripped, an optional sign, then digits only
StrInt(s) ==
    LET b == RStrip(LStrip(s))
        signed == b # <<>> /\ Head(b) \in {"+", "-"}
        d == IF signed THEN Tail(b) ELSE b
    IN  IF d # <<>> /\ \A k \in 1..Len(d) : IsDigit(d[k])
        THEN Return(Int_(IF signed /\ Head(b) = "-" THEN -DigitsVal(d)
                         ELSE DigitsVal(d)))
        ELSE Raise("ValueError")

\* int(x)
PyInt(x) ==
    CASE x.t = "none" -> Raise("TypeError")
      [] x.t = "nan"  -> Raise("ValueError")
      [] x.t = "str"  -> StrInt(x.s)
      [] OTHER        -> Return(Int_(x.n))

\* p in s, for strings
Contains(s, p) ==
    \E k \in 1..(Len(s) - Len(p) + 1) : SubSeq(s, k, k + Len(p) - 1) = p

StartsAt(s, p) == Len(s) >= Len(p) /\ SubSeq(s, 1, Len(p)) = p

\* s.replace(p, ''), p not empty: the occurrences from the left, not overlapping
RECURSIVE Remove(_, _)
Remove(s, p) ==
    IF s = <<>> THEN <<>>
    ELSE IF StartsAt(s, p) THEN Remove(SubSeq(s, Len(p) + 1, Len(s)), p)
    ELSE <<Head(s)>> \o Remove(Tail(s), p)

\* s.split(c): always at least one piece
RECURSIVE Split(_, _)
Split(s, c) ==
    IF \A k \in 1..Len(s) : s[k] # c THEN <<s>>
    ELSE LET k == CHOOSE j \in 1..Len(s) :
                      s[j] = c /\ \A m \in 1..(j - 1) : s[m] # c
         IN  <<SubSeq(s, 1, k - 1)>> \o Split(SubSeq(s, k + 1, Len(s)), c)

\* d.get(k) and d.get(k, dflt)
Get(d, k) == IF k \in DOMAIN d THEN d[k] ELSE None

GetOr(d, k, dflt) == IF k \in DOMAIN d THEN d[k] ELSE dflt

-----------------------------------------------------------------------------
(* table.py *)

\* a faulty variant: the NaN test left out
_empty_WithoutNaN(x) == x.t = "none" \/ (x.t = "str" /\ x.s = <<>>)

_empty(x) == x.t = "none" \/ x.t = "nan" \/ (x.t = "str" /\ x.s = <<>>)

\* the row keys the code names
K_name == <<"n", "a", "m", "e">>

K_hostname == <<"h", "o", "s", "t", "n", "a", "m", "e">>

K_port == <<"p", "o", "r", "t">>

K_username == <<"u", "s", "e", "r", "n", "a", "m", "e">>

K_password == <<"p", "a", "s", "s", "w", "o", "r", "d">>

K_platform == <<"p", "l", "a", "t", "f", "o", "r", "m">>

K_groups == <<"g", "r", "o", "u", "p", "s">>

netmiko_prefix == <<"n", "e", "t", "m", "i", "k", "o", "_">>

K_timeout == <<"t", "i", "m", "e", "o", "u", "t">>

int_keys == {K_timeout,
             <<"c", "o", "n", "n", "_">> \o K_timeout,
             <<"a", "u", "t", "h", "_">> \o K_timeout,
             <<"b", "a", "n", "n", "e", "r", "_">> \o K_timeout,
             <<"b", "l", "o", "c", "k", "i", "n", "g", "_">> \o K_timeout,
             <<"s", "e", "s", "s", "i", "o", "n", "_">> \o K_timeout}

bool_keys == {<<"f", "a", "s", "t", "_", "c", "l", "i">>}

\* the values str(v).lower() is compared with
falsy_words == {<<"0">>, <<"f", "a", "l", "s", "e">>, <<"n", "o", "n", "e">>}

\* data.get("port", 22)
DefaultPort == 22

EmptyDict == <<>>

\* ConnectionOptions(...)
ConnectionOptions(hostname, port, username, password, platform, extras) ==
    [hostname |-> hostname, port |-> port, username |-> username,
     password |-> password, platform |-> platform, extras |-> extras]

\* data: connection name -> dict of the options given
_get_connection_options(data) ==
    [cn \in DOMAIN data |->
        ConnectionOptions(Get(data[cn], "hostname"), Get(data[cn], "port"),
                          Get(data[cn], "username"), Get(data[cn], "password"),
                          Get(data[cn], "platform"), Get(data[cn], "extras"))]

\* the list no_data_fields, after the append when isDefaults
no_data_fields(isDefaults) ==
    {K_name, K_hostname, K_port, K_username, K_password, K_platform}
        \cup (IF isDefaults THEN {K_groups} ELSE {})

_get_data(data, isDefaults) ==
    LET keep == {k \in DOMAIN data : k \notin no_data_fields(isDefaults)
                                     /\ ~Contains(k, netmiko_prefix)}
    IN  [k \in keep |-> IF ~_empty(data[k]) THEN data[k] ELSE None]

\* the value stored under new_k, or the exception of the conversion
NetmikoValue(new_k, v) ==
    IF new_k \in int_keys THEN PyInt(v)
    ELSE IF new_k \in bool_keys
         THEN Return(Bool(Lower(PyStr(v)) \notin falsy_words))
    ELSE Return(IF _empty(v) THEN None ELSE v)

\* the keys of the row that the loop takes
NetmikoKeys(data) == {k \in DOMAIN data : Contains(k, netmiko_prefix)}

\* new_k of a key
NewKey(k) == Remove(k, netmiko_prefix)

_get_host_netmiko_options(data) ==
    LET ks == NetmikoKeys(data)
        bad == {k \in ks : ~NetmikoValue(NewKey(k), data[k]).ok}
        extra_opts ==
            [nk \in {NewKey(k) : k \in ks} |->
                NetmikoValue(nk, data[CHOOSE k \in ks : NewKey(k) = nk]).v]
    IN  IF bad # {}
        THEN LET k == CHOOSE b \in bad : TRUE
             IN  Raise(NetmikoValue(NewKey(k), data[k]).err)
        ELSE IF extra_opts # EmptyDict
        THEN Return(_get_connection_options(
                        [netmiko |-> [extras |-> extra_opts]]))
        ELSE Return(EmptyDict)

\* if x: x = str(x) if not _empty(x) else None
StrField(x) ==
    IF Truthy(x) THEN (IF ~_empty(x) THEN Str(PyStr(x)) ELSE None) ELSE x

\* if name: name = str(name)
NameField(x) == IF Truthy(x) THEN Str(PyStr(x)) ELSE x

\* a faulty variant: a port that is no integer is dropped instead of raising
PortField_Lenient(x) ==
    IF Truthy(x) /\ ~_empty(x) /\ PyInt(x).ok THEN PyInt(x)
    ELSE IF Truthy(x) THEN Return(None)
    ELSE Return(x)

\* if port: port = int(port) if not _empty(port) else None
PortField(x) ==
    IF Truthy(x) THEN (IF ~_empty(x) THEN PyInt(x) ELSE Return(None))
    ELSE Return(x)

\* if groups: groups = [x for x in groups.split(",")]; a value that is not a
\* str has no split.  Then the constructor's groups or ParentGroups().
GroupsField(x) ==
    IF Truthy(x)
    THEN (IF x.t = "str" THEN Return(Split(x.s, ",")) ELSE Raise("AttributeError"))
    ELSE Return(<<>>)

\* the group list of an element: names as built, references (the oid of each
\* Group object) once load has resolved it
Unresolved(names) == [resolved |-> FALSE, names |-> names, refs |-> <<>>]

Resolved(refs) == [resolved |-> TRUE, names |-> <<>>, refs |-> refs]

\* a faulty variant: data.get("port") without the default
ElementPort_NoDefault(data) == Get(data, K_port)

\* the port of a row that has no port key
ElementPort(data) == GetOr(data, K_port, Int_(DefaultPort))

\* oid names the object built: the index of its row in its collection
_get_inventory_element(ty, data, dflts, oid) ==
    LET port == PortField(ElementPort(data))
        grps == GroupsField(Get(data, K_groups))
        opts == _get_host_netmiko_options(data)
    IN  IF ~port.ok THEN Raise(port.err)
        ELSE IF ~grps.ok THEN Raise(grps.err)
        ELSE IF ~opts.ok THEN Raise(opts.err)
        ELSE Return([typ |-> ty,
                     oid |-> oid,
                     name |-> NameField(Get(data, K_name)),
                     hostname |-> StrField(Get(data, K_hostname)),
                     port |-> port.v,
                     username |-> StrField(Get(data, K_username)),
                     password |-> StrField(Get(data, K_password)),
                     platform |-> StrField(Get(data, K_platform)),
                     data |-> _get_data(data, FALSE),
                     groups |-> Unresolved(grps.v),
                     defaults |-> dflts,
                     connection_options |-> opts.v])

\* Defaults(...)
Defaults(hostname, port, username, password, platform, data, connection_options) ==
    [hostname |-> hostname, port |-> port, username |-> username,
     password |-> password, platform |-> platform, data |-> data,
     connection_options |-> connection_options]

\* Defaults()
EmptyDefaults == Defaults(None, None, None, None, None, EmptyDict, EmptyDict)

\* what the Defaults record gets as its data
DefaultsData(data) == _get_data(data, FALSE)

\* The converted locals are computed, so int(port) may raise, and then not
\* used: the record gets data.get(...) of each field.
_get_defaults(data) ==
    LET port == PortField(Get(data, K_port))
        opts == _get_host_netmiko_options(data)
    IN  IF ~port.ok THEN Raise(port.err)
        ELSE IF ~opts.ok THEN Raise(opts.err)
        ELSE Return(Defaults(Get(data, K_hostname), Get(data, K_port),
                             Get(data, K_username), Get(data, K_password),
                             Get(data, K_platform), DefaultsData(data), opts.v))

-----------------------------------------------------------------------------
(* FlatDataInventory.load *)

\* a faulty variant: an earlier entry of the same key is kept
Put_KeepsFirst(d, k, v) ==
    [x \in DOMAIN d \cup {k} |-> IF x \in DOMAIN d THEN d[x] ELSE v]

\* d[k] = v
Put(d, k, v) == [x \in DOMAIN d \cup {k} |-> IF x = k THEN v ELSE d[x]]

\* load has not ended
NotRun == [kind |-> "none", err |-> "", hosts |-> EmptyDict,
           groups |-> EmptyDict, defaults |-> EmptyDefaults]

\* load raised e: nothing is returned
Failed(e) == [kind |-> "error", err |-> e, hosts |-> EmptyDict,
              groups |-> EmptyDict, defaults |-> EmptyDefaults]

\* Inventory(hosts=hosts, groups=groups, defaults=defaults)
Inventory(h, g, d) == [kind |-> "inventory", err |-> "", hosts |-> h,
                       groups |-> g, defaults |-> d]

\* groups[g] of one name: the key is the str itself
Lookup(name) == Str(name)

\* a faulty variant: a name that is no key is skipped instead of raising
ParentGroups_SkipsMissing(names) ==
    LET found == SelectSeq(names, LAMBDA nm : Str(nm) \in DOMAIN groups)
    IN  Return([j \in 1..Len(found) |-> groups[Str(found[j])].oid])

\* a faulty variant: the objects found, in the reverse order
ParentGroups_Reversed(names) ==
    IF \E j \in 1..Len(names) : Str(names[j]) \notin DOMAIN groups
    THEN Raise("KeyError")
    ELSE Return([j \in 1..Len(names) |->
                    groups[Str(names[Len(names) + 1 - j])].oid])

\* [groups[g] for g in names]: the objects found, or the KeyError
ParentGroups(names) ==
    IF \E j \in 1..Len(names) : Lookup(names[j]) \notin DOMAIN groups
    THEN Raise("KeyError")
    ELSE Return([j \in 1..Len(names) |-> groups[Lookup(names[j])].oid])

\* the key a built element is stored under
KeyOf(r) == r[K_name]

\* where load goes on after the defaults, and after the groups
AfterGroups == IF hosts_data # <<>> THEN "hosts" ELSE "resolve_hosts"

AfterDefaults == IF groups_data # <<>> THEN "groups" ELSE AfterGroups

Abort(e) == pc' = "done" /\ result' = Failed(e)

\* one row of a collection: the name check, the build, the store
AddRow(ty, r, coll) ==
    IF K_name \notin DOMAIN r THEN Raise("KeyError")
    ELSE IF _empty(r[K_name]) THEN Raise("Exception")
    ELSE LET e == _get_inventory_element(ty, r, defaults, i)
         IN  IF e.ok THEN Return(Put(coll, KeyOf(r), e.v)) ELSE e

\* g.groups = ParentGroups(...) for every element of a collection
ResolveAll(coll) ==
    IF \E k \in DOMAIN coll : ~ParentGroups(coll[k].groups.names).ok
    THEN Raise("KeyError")
    ELSE Return([k \in DOMAIN coll |->
                    [coll[k] EXCEPT
                        !.groups = Resolved(ParentGroups(coll[k].groups.names).v)]])

LoadDefaults ==
    /\ pc = "start"
    /\ LET d == IF DOMAIN defaults_data # {} THEN _get_defaults(defaults_data)
                ELSE Return(EmptyDefaults)
       IN  IF d.ok
           THEN defaults' = d.v /\ pc' = AfterDefaults /\ UNCHANGED result
           ELSE Abort(d.err) /\ UNCHANGED defaults
    /\ UNCHANGED <<hosts_data, groups_data, defaults_data, i, groups, hosts,
                   typ, row, built>>

AddGroup ==
    /\ pc = "groups"
    /\ LET g == AddRow("Group", groups_data[i], groups)
       IN  IF g.ok
           THEN /\ groups' = g.v
                /\ i' = IF i = Len(groups_data) THEN 1 ELSE i + 1
                /\ pc' = IF i = Len(groups_data) THEN "resolve_groups" ELSE "groups"
                /\ UNCHANGED result
           ELSE Abort(g.err) /\ UNCHANGED <<groups, i>>
    /\ UNCHANGED <<hosts_data, groups_data, defaults_data, defaults, hosts,
                   typ, row, built>>

ResolveGroups ==
    /\ pc = "resolve_groups"
    /\ LET g == ResolveAll(groups)
       IN  IF g.ok
           THEN groups' = g.v /\ pc' = AfterGroups /\ UNCHANGED result
           ELSE Abort(g.err) /\ UNCHANGED groups
    /\ UNCHANGED <<hosts_data, groups_data, defaults_data, i, defaults, hosts,
                   typ, row, built>>

AddHost ==
    /\ pc = "hosts"
    /\ LET h == AddRow("Host", hosts_data[i], hosts)
       IN  IF h.ok
           THEN /\ hosts' = h.v
                /\ i' = IF i = Len(hosts_data) THEN 1 ELSE i + 1
                /\ pc' = IF i = Len(hosts_data) THEN "resolve_hosts" ELSE "hosts"
                /\ UNCHANGED result
           ELSE Abort(h.err) /\ UNCHANGED <<hosts, i>>
    /\ UNCHANGED <<hosts_data, groups_data, defaults_data, defaults, groups,
                   typ, row, built>>

\* the hosts resolved, then the return
ResolveHosts ==
    /\ pc = "resolve_hosts"
    /\ LET h == ResolveAll(hosts)
       IN  IF h.ok
           THEN /\ hosts' = h.v
                /\ pc' = "done"
                /\ result' = Inventory(h.v, groups, defaults)
           ELSE Abort(h.err) /\ UNCHANGED hosts
    /\ UNCHANGED <<hosts_data, groups_data, defaults_data, i, defaults, groups,
                   typ, row, built>>

Next == LoadDefaults \/ AddGroup \/ ResolveGroups \/ AddHost \/ ResolveHosts

-----------------------------------------------------------------------------
(* the builders alone *)

NotBuilt == [ok |-> FALSE, err |-> "not built", v |-> None]

Build ==
    /\ built.err = "not built"
    /\ built' = IF typ = "Defaults" THEN _get_defaults(row)
                ELSE _get_inventory_element(typ, row, EmptyDefaults, 1)
    /\ UNCHANGED <<hosts_data, groups_data, defaults_data, pc, i, defaults,
                   groups, hosts, result, typ, row>>

NextBuild == Build

-----------------------------------------------------------------------------
(* the inputs *)

\* a key left out of a row
Absent == [t |-> "absent", s |-> <<>>, n |-> 0]

\* the dict of the cells given
MkRow(f) == [k \in {x \in DOMAIN f : f[x].t # "absent"} |-> f[k]]

\* the sequences of at most n rows of R
RowsUpTo(R, n) == UNION {[1..m -> R] : m \in 0..n}

\* at most MaxRows group and host rows together
MaxRows == 3

K_site == <<"s", "i", "t", "e">>

K_netmiko_timeout == netmiko_prefix \o K_timeout

K_netmiko_fast_cli == netmiko_prefix \o <<"f", "a", "s", "t", "_", "c", "l", "i">>

K_netmiko_secret == netmiko_prefix \o <<"s", "e", "c", "r", "e", "t">>

K_my_netmiko_opt == <<"m", "y", "_">> \o netmiko_prefix \o <<"o", "p", "t">>

InitLoad(G, H, D) ==
    /\ groups_data \in RowsUpTo(G, MaxRows)
    /\ hosts_data \in RowsUpTo(H, MaxRows - Len(groups_data))
    /\ defaults_data \in D
    /\ pc = "start"
    /\ i = 1
    /\ defaults = EmptyDefaults
    /\ groups = EmptyDict
    /\ hosts = EmptyDict
    /\ result = NotRun
    /\ typ = "Host"
    /\ row = EmptyDict
    /\ built = NotBuilt

\* Spec: rows that differ in name and group list
RefNames == {Str(<<"a">>), Str(<<"b">>), Int_(1)}

RefGroupRows ==
    {MkRow(K_name :> nm @@ K_groups :> gl) :
        nm \in RefNames,
        gl \in {Absent, Str(<<>>), Str(<<"b", ",", "a">>), Str(<<"1">>)}}

RefHostRows ==
    {MkRow(K_name :> nm @@ K_groups :> gl) :
        nm \in {Str(<<"a">>), Int_(1)},
        gl \in {Absent, Str(<<>>), Str(<<"a">>), Str(<<"b", ",", "a">>)}}

RefDefaults == {EmptyDict, K_port :> Str(<<"2", "2">>) @@ K_groups :> Str(<<"a">>)}

Init == InitLoad(RefGroupRows, RefHostRows, RefDefaults)

Spec == Init /\ [][Next]_vars

\* SpecErrs: rows that differ in what may fail: the name, the port, a timeout
ErrRows ==
    {K_name :> nm : nm \in {Str(<<"a">>), Str(<<>>), NaN, None}}
        \cup {K_name :> Str(<<"a">>) @@ K_port :> Str(<<"x">>),
              K_name :> Str(<<"b">>) @@ K_port :> Str(<<"2", "2">>),
              K_name :> Str(<<"a">>) @@ K_netmiko_timeout :> Str(<<"x">>),
              K_name :> Str(<<"b">>) @@ K_netmiko_timeout :> Str(<<"3", "0">>)}

ErrDefaults == {EmptyDict,
                K_port :> Str(<<"x">>),
                K_port :> Int_(22) @@ K_netmiko_timeout :> Str(<<"3", "0", "s">>)}

InitErrs == InitLoad(ErrRows, ErrRows, ErrDefaults)

SpecErrs == InitErrs /\ [][Next]_vars

\* SpecBuild: one row, rich in cell values, handed to one builder
IdentityRows ==
    {MkRow(K_name :> Str(<<"r", "1">>) @@ K_hostname :> hn @@ K_port :> po
           @@ K_username :> un @@ K_password :> pw) :
        hn \in {Absent, None, NaN, Str(<<>>), Str(<<"r", ".", "x">>), Int_(7)},
        po \in {Absent, None, NaN, Str(<<>>), Str(<<"2", "2">>), Str(<<"x">>),
                Int_(0), Int_(830)},
        un \in {Absent, None, Str(<<>>), Str(<<"a", "d", "m", "i", "n">>)},
        pw \in {Absent, NaN, Str(<<>>), Int_(123)}}

FieldRows ==
    {MkRow(K_name :> Str(<<"r", "1">>) @@ K_groups :> gl @@ K_site :> si
           @@ K_netmiko_timeout :> ti @@ K_netmiko_fast_cli :> fc
           @@ K_netmiko_secret :> se @@ K_my_netmiko_opt :> my) :
        gl \in {Absent, Str(<<>>), Str(<<"a", ",", "b">>)},
        si \in {Absent, NaN, Str(<<"x">>)},
        ti \in {Absent, Str(<<"3", "0">>), Str(<<"x">>), Int_(5)},
        fc \in {Absent, Str(<<"F", "a", "l", "s", "e">>), Str(<<"0">>),
                Str(<<"N", "O", "N", "E">>), Str(<<"y", "e", "s">>), Str(<<"1">>)},
        se \in {Absent, Str(<<>>), Str(<<"s">>)},
        my \in {Absent, Str(<<"v">>)}}

InitBuild ==
    /\ typ \in {"Host", "Group", "Defaults"}
    /\ row \in IdentityRows \cup FieldRows
    /\ built = NotBuilt
    /\ hosts_data = <<>>
    /\ groups_data = <<>>
    /\ defaults_data = EmptyDict
    /\ pc = "done"
    /\ i = 1
    /\ defaults = EmptyDefaults
    /\ groups = EmptyDict
    /\ hosts = EmptyDict
    /\ result = NotRun

SpecBuild == InitBuild /\ [][NextBuild]_vars

-----------------------------------------------------------------------------
(* the claims about the builders, under SpecBuild *)

\* empty, as the specification words it: None, NaN or the empty string
IsNoValue(v) == v.t = "none" \/ v.t = "nan" \/ (v.t = "str" /\ v.s = <<>>)

\* the identity field of a built record that a row key fills
FieldOf(rec, k) ==
    CASE k = K_hostname -> rec.hostname
      [] k = K_port     -> rec.port
      [] k = K_username -> rec.username
      [] k = K_password -> rec.password

\* C4: in every record built from a row, each of hostname, port, username and
\* password that the row gives is unset when the row's value is empty, and
\* otherwise is the value coerced: port to an int, the others to a str.
C4_IdentityFieldsCoerced ==
    built.ok =>
        \A k \in {K_hostname, K_port, K_username, K_password} \cap DOMAIN row :
            FieldOf(built.v, k) =
                IF IsNoValue(row[k]) THEN None
                ELSE IF k = K_port THEN PyInt(row[k]).v
                ELSE Str(PyStr(row[k]))

\* C5: a Host or Group built from a row with no port key has port 22; a
\* Defaults record built from a row with no port key has its port unset.
C5_PortDefault ==
    (built.ok /\ K_port \notin DOMAIN row) =>
        built.v.port = IF typ = "Defaults" THEN None ELSE Int_(22)

C5_Witness ==
    /\ built.ok
    /\ typ = "Group"
    /\ K_port \notin DOMAIN row
    /\ built.v.port = Int_(22)

\* C6: the data mapping of a built record has exactly the row's keys that are
\* none of the six identity keys, do not begin with netmiko_ and, for the
\* Defaults record, are not groups; each maps to the row's value, or to None
\* when that value is empty.
C6_DataKeys ==
    built.ok =>
        LET expected ==
                {k \in DOMAIN row :
                    /\ k \notin {K_name, K_hostname, K_port, K_username,
                                 K_password, K_platform}
                    /\ ~StartsAt(k, netmiko_prefix)
                    /\ (typ = "Defaults" => k # K_groups)}
        IN  /\ DOMAIN built.v.data = expected
            /\ \A k \in expected :
                   built.v.data[k] = IF IsNoValue(row[k]) THEN None ELSE row[k]

\* C7: the connection options of a built record are empty when no key of the
\* row begins with netmiko_; otherwise they hold the one entry netmiko, its
\* five overrides unset, its extras mapping each key that begins with the
\* prefix, the prefix stripped, to the int of the value (the six timeouts),
\* to the boolean of fast_cli, or to the value itself (None when empty).
C7_NetmikoOptions ==
    built.ok =>
        LET pk == {k \in DOMAIN row : StartsAt(k, netmiko_prefix)}
            strip(k) == SubSeq(k, Len(netmiko_prefix) + 1, Len(k))
            co == built.v.connection_options
        IN  IF pk = {} THEN DOMAIN co = {}
            ELSE /\ DOMAIN co = {"netmiko"}
                 /\ \A f \in {"hostname", "port", "username", "password",
                              "platform"} : co.netmiko[f] = None
                 /\ DOMAIN co.netmiko.extras = {strip(k) : k \in pk}
                 /\ \A k \in pk :
                        LET got == co.netmiko.extras[strip(k)]
                        IN  IF strip(k) \in int_keys THEN got = PyInt(row[k]).v
                            ELSE IF strip(k) \in bool_keys
                            THEN IsNoValue(row[k])
                                 \/ got = Bool(Lower(PyStr(row[k])) \notin falsy_words)
                            ELSE got = IF IsNoValue(row[k]) THEN None ELSE row[k]

-----------------------------------------------------------------------------
(* the claims about load, under Spec and SpecErrs *)

\* the rows of both collections
AllRows == {groups_data[m] : m \in 1..Len(groups_data)}
               \cup {hosts_data[m] : m \in 1..Len(hosts_data)}

\* the names a row's groups field gives when split on commas
ListOf(r) ==
    IF K_groups \in DOMAIN r /\ r[K_groups].t = "str" /\ r[K_groups].s # <<>>
    THEN Split(r[K_groups].s, ",") ELSE <<>>

\* the keys of the groups mapping once every group row is stored
GroupKeys == {groups_data[m][K_name] : m \in 1..Len(groups_data)}

\* the row names a group that is no key of the completed groups mapping
Dangling(r) == \E j \in 1..Len(ListOf(r)) : Str(ListOf(r)[j]) \notin GroupKeys

\* row m of a collection is the last one of its name
Last(data, m) ==
    \A x \in (m + 1)..Len(data) : data[x][K_name] # data[m][K_name]

\* the index of the last row stored under key k
LastIndex(data, k) ==
    CHOOSE m \in 1..Len(data) : data[m][K_name] = k /\ Last(data, m)

\* the oids of the Group objects held by the returned groups mapping
ReturnedGroups == {result.groups[k].oid : k \in DOMAIN result.groups}

\* every resolved entry of every returned host and group is a returned Group
RefsAreReturnedGroups ==
    /\ \A k \in DOMAIN result.groups :
           \A j \in 1..Len(result.groups[k].groups.refs) :
               result.groups[k].groups.refs[j] \in ReturnedGroups
    /\ \A k \in DOMAIN result.hosts :
           \A j \in 1..Len(result.hosts[k].groups.refs) :
               result.hosts[k].groups.refs[j] \in ReturnedGroups

NoInventory == result.kind # "inventory" /\ (pc = "done" => result.kind = "error")

\* C1: with a group row or a host row whose name is empty, load ends in an
\* error and returns no Inventory, wherever the row sits.
C1_EmptyNameAborts ==
    (\E r \in AllRows : IsNoValue(r[K_name])) => NoInventory

C1_Witness ==
    /\ pc = "done"
    /\ result.err = "Exception"
    /\ Len(groups_data) = 2
    /\ ~IsNoValue(groups_data[1][K_name])
    /\ groups_data[2][K_name] = NaN

\* C2 as stated: with a host row or a group row whose list names a group that
\* is no key of the completed mapping, load fails and returns no Inventory;
\* and every resolved entry of a returned Inventory is a returned Group.
C2_DanglingRowAborts ==
    /\ (\E r \in AllRows : Dangling(r)) => NoInventory
    /\ result.kind = "inventory" => RefsAreReturnedGroups

\* C2 amended: the same of the rows that are the last of their name in their
\* collection (an earlier row of the same name is overwritten before its list
\* is resolved).
C2_DanglingLastRowAborts ==
    /\ (\/ \E m \in 1..Len(groups_data) :
               Last(groups_data, m) /\ Dangling(groups_data[m])
        \/ \E m \in 1..Len(hosts_data) :
               Last(hosts_data, m) /\ Dangling(hosts_data[m])) => NoInventory
    /\ result.kind = "inventory" => RefsAreReturnedGroups

C2_Witness ==
    /\ pc = "done"
    /\ result.err = "KeyError"
    /\ groups_data = <<>>
    /\ Len(hosts_data) = 1
    /\ Dangling(hosts_data[1])

\* the returned element stored under k resolved to the groups its row names
ResolvedAsNamed(e, r) ==
    /\ e.groups.resolved
    /\ Len(e.groups.refs) = Len(ListOf(r))
    /\ \A j \in 1..Len(ListOf(r)) :
           \E gk \in DOMAIN result.groups :
               /\ result.groups[gk].oid = e.groups.refs[j]
               /\ result.groups[gk].name = Str(ListOf(r)[j])

\* C3: in a returned Inventory the resolved list of each group and each host
\* is the sequence of the groups its groups field names, split on commas, in
\* order and length; empty when the field is absent or empty.
C3_ResolvedInOrder ==
    result.kind = "inventory" =>
        /\ \A k \in DOMAIN result.groups :
               ResolvedAsNamed(result.groups[k],
                               groups_data[LastIndex(groups_data, k)])
        /\ \A k \in DOMAIN result.hosts :
               ResolvedAsNamed(result.hosts[k],
                               hosts_data[LastIndex(hosts_data, k)])

\* a group names as parents a group of a later row and itself
C3_Witness ==
    /\ result.kind = "inventory"
    /\ Len(groups_data) = 2
    /\ groups_data[1] = (K_name :> Str(<<"a">>) @@ K_groups :> Str(<<"b", ",", "a">>))
    /\ groups_data[2][K_name] = Str(<<"b">>)
    /\ result.groups[Str(<<"a">>)].groups.refs = <<2, 1>>

\* C9: rows of the same name raise no error of their own; the returned
\* mapping holds under that name the element built from the last such row,
\* and every list that names the group resolves to that last-built Group.
C9_LastWriteWins ==
    /\ result.kind = "inventory" =>
        /\ DOMAIN result.groups = GroupKeys
        /\ \A k \in DOMAIN result.groups :
               /\ result.groups[k].oid = LastIndex(groups_data, k)
               /\ \A j \in 1..Len(result.groups[k].groups.refs) :
                      result.groups[k].groups.refs[j] =
                          LastIndex(groups_data,
                                    Str(ListOf(groups_data[LastIndex(groups_data, k)])[j]))
        /\ \A k \in DOMAIN result.hosts :
               /\ result.hosts[k].oid = LastIndex(hosts_data, k)
               /\ \A j \in 1..Len(result.hosts[k].groups.refs) :
                      result.hosts[k].groups.refs[j] =
                          LastIndex(groups_data,
                                    Str(ListOf(hosts_data[LastIndex(hosts_data, k)])[j]))
    /\ result.kind = "error" =>
        /\ result.err = "KeyError"
        /\ \E r \in AllRows : Dangling(r)

\* two group rows of one name, and a host that names the group
C9_Witness ==
    /\ result.kind = "inventory"
    /\ Len(groups_data) = 2
    /\ groups_data[1][K_name] = groups_data[2][K_name]
    /\ groups_data[1] # groups_data[2]
    /\ \E k \in DOMAIN result.hosts : result.hosts[k].groups.refs = <<2>>

\* C10: every entry of the returned hosts and groups mappings is stored under
\* a key equal to the name the stored record holds.
C10_KeyIsName ==
    result.kind = "inventory" =>
        /\ \A k \in DOMAIN result.groups : result.groups[k].name = k
        /\ \A k \in DOMAIN result.hosts : result.hosts[k].name = k

\* a port or an integer-typed netmiko_ key holds a value that is not empty
\* and is no integer
BadInt(r) ==
    \E k \in DOMAIN r :
        /\ k = K_port \/ (StartsAt(k, netmiko_prefix)
                          /\ SubSeq(k, Len(netmiko_prefix) + 1, Len(k)) \in int_keys)
        /\ ~IsNoValue(r[k])
        /\ ~PyInt(r[k]).ok

====
